---- MODULE Spec2Model ----
(***************************************************************************)
(* control-plane-lab: the relational task queue (memory/tasks.py) and the  *)
(* worker dispatch loop (worker/runner.py) that drains it.                 *)
(*                                                                         *)
(* The store is the only shared resource.  Every store call of the worker  *)
(* (claim_task, write_event, complete_task_success, complete_task_failure) *)
(* is one transaction and one step of the model; claim_task is two steps,  *)
(* the statement that selects and row-locks the candidate, and the commit  *)
(* that publishes the update and releases the row lock.                    *)
(*                                                                         *)
(* The second half is the orchestrator (app.py) behind its middleware      *)
(* (api/observability.py): /ask in its three modes and /trace, over the    *)
(* memory table (db.py, memory/trace.py, memory/events.py), and the tool   *)
(* registry (tools/registry.py).                                           *)
(***************************************************************************)
EXTENDS Integers, Sequences, FiniteSets, TLC

(* ------------------------------ bounds -------------------------------- *)

\* Number of rows the enqueuer may insert into tasks.
MaxTasks == 2

\* The store clock runs over 0..MaxTime.
MaxTime == 1

\* The clock's range in the single-task specifications, long enough for
\* two backoffs (1 s, then 2 s) and for a lease to run out.
Horizon == 4

\* max_attempts an enqueuer sets on the rows it inserts.
EnqueuedMaxAttempts == 2

\* WorkerConfig.lock_s as configured (AIOP_WORKER_LOCK_S), in clock units.
LockS == 1

\* Store calls that fail plus worker processes that die, in one behaviour.
MaxFaults == 1

(* ------------------------- program constants -------------------------- *)

\* tasks.max_attempts column default, as the worker assumes it.
DefaultMaxAttempts == 3

\* Ceiling of the retry backoff in seconds.
BackoffCap == 30

\* Priority the demo enqueuer gives every task.
DemoPriority == 10

\* A second, more urgent priority (lower value is served earlier).
UrgentPriority == DemoPriority - 5

Workers == {"w1", "w2"}

NULL == "NULL"

\* NULL of a timestamp column.
NullTime == 0 - 1

\* The closed set of task types of the data model.
TaskTypes == {"tool.call", "patch.apply", "repo.change", "doc.build"}

\* Tool names an enqueued tool.call payload may carry (dev/enqueue_demo.py).
PayloadTools == {"ping", "sleep"}

\* Tools that default_registry() registers.
RegisteredTools == {"ping"}

Priorities == {UrgentPriority, DemoPriority}

VARIABLES
  tasks,      \* the tasks table: a sequence of rows, the index is the id
  memory,     \* the memory table: per task_id, its events in insertion order
  now,        \* the store clock
  pc,         \* per worker: the position in run_forever / run_once
  row,        \* per worker: the row claim_task returned (RETURNING t.*)
  err,        \* per worker: the error string of the except branch
  faults,     \* store failures and process deaths that have happened
  rows,       \* the memory table as app.py reads it, in insertion order: its
              \* rows other than the workers' task events, whose run_id is null
  req,        \* the HTTP request the orchestrator is serving, and its response
  remembered, \* the phrase of the last remember request that has ended
  call        \* a call of ToolRegistry.run or of a function of the store: its
              \* arguments and its outcome

\* The state of the orchestrator and of the tool registry.
orch == <<rows, req, remembered, call>>

vars == <<tasks, memory, now, pc, row, err, faults, rows, req, remembered, call>>

NoRow == [id |-> 0]

(* ------------------------- memory/tasks.py ---------------------------- *)

\* A store whose claim takes no row lock.
NoRowLocks == {}

\* Rows whose update by an uncommitted claim_task holds the row lock.
LockedRows == {row[w].id : w \in {x \in Workers : pc[x] = "claim_tx"}}

\* The WHERE clause without SKIP LOCKED: a row another claim has locked is
\* picked all the same.
EligibleNoSkip(ts, nw, locked) ==
  {i \in DOMAIN ts : ts[i].status = "queued" /\ ts[i].available_at <= nw}

\* WHERE status = 'queued' AND available_at <= now ... FOR UPDATE SKIP LOCKED
Eligible(ts, nw, locked) ==
  {i \in DOMAIN ts : /\ ts[i].status = "queued"
                     /\ ts[i].available_at <= nw
                     /\ i \notin locked}

\* ORDER BY priority ASC, created_at ASC
OrderedBefore(a, b) ==
  \/ a.priority < b.priority
  \/ a.priority = b.priority /\ a.created_at < b.created_at

\* LIMIT 1 without the ORDER BY: any eligible row.
CandidatesUnordered(ts, nw, locked) == Eligible(ts, nw, locked)

\* The rows LIMIT 1 may pick: no eligible row is ordered before them.
Candidates(ts, nw, locked) ==
  {i \in Eligible(ts, nw, locked) :
     \A j \in Eligible(ts, nw, locked) : ~OrderedBefore(ts[j], ts[i])}

\* The UPDATE of claim_task with lock_expires_at = now, lock_s left out.
claim_update_no_lease(r, worker_id, nw, lock_s) ==
  [r EXCEPT !.status = "running",
            !.locked_by = worker_id,
            !.locked_at = nw,
            !.lock_expires_at = nw,
            !.attempts = r.attempts + 1]

\* UPDATE tasks SET status = 'running', locked_by, locked_at, lock_expires_at,
\* attempts = attempts + 1
claim_update(r, worker_id, nw, lock_s) ==
  [r EXCEPT !.status = "running",
            !.locked_by = worker_id,
            !.locked_at = nw,
            !.lock_expires_at = nw + lock_s,
            !.attempts = r.attempts + 1]

\* complete_task_success that leaves the lease on the row.
complete_task_success_keeps_lease(r, result) ==
  [r EXCEPT !.status = "succeeded", !.result = result, !.last_error = NULL]

complete_task_success(r, result) ==
  [r EXCEPT !.status = "succeeded",
            !.result = result,
            !.last_error = NULL,
            !.locked_by = NULL,
            !.locked_at = NullTime,
            !.lock_expires_at = NullTime]

Max(a, b) == IF a >= b THEN a ELSE b

Min(a, b) == IF a <= b THEN a ELSE b

\* complete_task_failure with attempts > max_attempts as its test.
complete_task_failure_off_by_one(r, error, retry_backoff_s, nw) ==
  [r EXCEPT !.status = IF r.attempts > r.max_attempts THEN "failed" ELSE "queued",
            !.last_error = error,
            !.available_at = IF r.attempts > r.max_attempts
                               THEN r.available_at
                               ELSE nw + Max(0, retry_backoff_s),
            !.locked_by = NULL,
            !.locked_at = NullTime,
            !.lock_expires_at = NullTime]

\* complete_task_failure that bumps available_at of a failed task too and
\* leaves lock_expires_at.
complete_task_failure_sloppy(r, error, retry_backoff_s, nw) ==
  [r EXCEPT !.status = IF r.attempts >= r.max_attempts THEN "failed" ELSE "queued",
            !.last_error = error,
            !.available_at = nw + Max(0, retry_backoff_s),
            !.locked_by = NULL,
            !.locked_at = NullTime]

\* complete_task_failure that gives a re-queued task its attempt back.
complete_task_failure_refunds(r, error, retry_backoff_s, nw) ==
  [r EXCEPT !.status = IF r.attempts >= r.max_attempts THEN "failed" ELSE "queued",
            !.last_error = error,
            !.available_at = IF r.attempts >= r.max_attempts
                               THEN r.available_at
                               ELSE nw + Max(0, retry_backoff_s),
            !.attempts = IF r.attempts >= r.max_attempts THEN r.attempts
                                                         ELSE r.attempts - 1,
            !.locked_by = NULL,
            !.locked_at = NullTime,
            !.lock_expires_at = NullTime]

complete_task_failure(r, error, retry_backoff_s, nw) ==
  [r EXCEPT !.status = IF r.attempts >= r.max_attempts THEN "failed" ELSE "queued",
            !.last_error = error,
            !.available_at = IF r.attempts >= r.max_attempts
                               THEN r.available_at
                               ELSE nw + Max(0, retry_backoff_s),
            !.locked_by = NULL,
            !.locked_at = NullTime,
            !.lock_expires_at = NullTime]

(* ------------------------- worker/runner.py --------------------------- *)

RECURSIVE Pow2(_)
Pow2(n) == IF n <= 0 THEN 1 ELSE 2 * Pow2(n - 1)

\* The backoff with 2^attempts as its base.
compute_backoff_s_doubled(attempts) == Min(BackoffCap, Pow2(Max(0, attempts)))

\* The backoff without its ceiling.
compute_backoff_s_uncapped(attempts) == Pow2(Max(0, attempts - 1))

compute_backoff_s(attempts) == Min(BackoffCap, Pow2(Max(0, attempts - 1)))

\* The write_event the worker imports (from ai_operator.memory.events) and
\* the one the orchestrator imports (from ai_operator.memory.writer).
WorkerWriter == "ai_operator.memory.events.write_event"

CanonicalWriter == "ai_operator.memory.writer.write_event"

\* The tool_result _event passes along with an envelope of a type: the
\* data of a tool_result event, None for any other.
ToolResultArg(type) == IF type = "tool_result" THEN "data" ELSE NULL

\* NULL of the embedding column, and embedding=None.
NullVector == <<>>

\* The tool _event passes for the tool column: the tool of the payload on
\* tool_call and tool_result, None on every other event.
ToolArg(type, r) == IF type \in {"tool_call", "tool_result"} THEN r.tool ELSE NULL

\* The envelope handed to write_event together with an embedding of it.
EnvelopeEmbedded(type, r, backoff) ==
  [type |-> type, task_id |-> r.id, attempts |-> r.attempts,
   max_attempts |-> r.max_attempts, retry_backoff_s |-> backoff,
   via |-> WorkerWriter, tool_result |-> ToolResultArg(type),
   tool |-> ToolArg(type, r), embedding |-> <<1, 0>>]

\* The envelope _event hands to write_event, reduced to the type, the task,
\* the attempts the worker observed and, for task.failed, the backoff it
\* computed; with it, the function it is handed to, the tool and the
\* tool_result that are passed for the columns of these names, and the
\* embedding, which _event does not pass.
Envelope(type, r, backoff) ==
  [type |-> type, task_id |-> r.id, attempts |-> r.attempts,
   max_attempts |-> r.max_attempts, retry_backoff_s |-> backoff,
   via |-> WorkerWriter, tool_result |-> ToolResultArg(type),
   tool |-> ToolArg(type, r), embedding |-> NullVector]

\* The type of the begin event and of the closing event of a dispatched type.
BeginType(task_type) == IF task_type = "tool.call" THEN "tool_call" ELSE task_type

ResultType(task_type) ==
  IF task_type = "tool.call" THEN "tool_result" ELSE "patch.apply.result"

\* The task types run_once has a branch for.
Dispatched == {"tool.call", "patch.apply"}

\* insert_memory of one envelope: the row joins the events of its task.
Appended(mem, e) == [mem EXCEPT ![e.task_id] = Append(@, e)]

(* ------------------------------ Init ---------------------------------- *)

\* No request is being served: the fields of a request and of its response.
NoRequest ==
  [pc |-> "idle", n |-> 0, path |-> NULL, header |-> NULL, prompt |-> NULL,
   arg |-> NULL, include_tools |-> FALSE, run_id |-> NULL, mode |-> NULL,
   embed_calls |-> 0, chat_calls |-> 0, tool_runs |-> 0, model_out |-> NULL,
   status |-> 0, error |-> NULL, resp_header |-> NULL, response |-> NULL,
   body_run_id |-> NULL, sel |-> <<>>, retrieved |-> <<>>]

NoCall == [pc |-> "idle"]

\* The orchestrator serves nothing, the memory table holds no row.
OrchIdle ==
  /\ rows = <<>>
  /\ req = NoRequest
  /\ remembered = NULL
  /\ call = NoCall

WorkerInit ==
  /\ pc = [w \in Workers |-> "poll"]
  /\ row = [w \in Workers |-> NoRow]
  /\ err = [w \in Workers |-> NULL]

Init ==
  /\ tasks = <<>>
  /\ memory = <<>>
  /\ now = 0
  /\ faults = 0
  /\ WorkerInit
  /\ OrchIdle

\* INSERT INTO tasks (type, payload, priority): the other columns take
\* their defaults.
NewTask(id, type, tool, priority, max_attempts, nw) ==
  [id |-> id, type |-> type, tool |-> tool, priority |-> priority,
   status |-> "queued", attempts |-> 0, max_attempts |-> max_attempts,
   available_at |-> nw, created_at |-> nw,
   locked_by |-> NULL, locked_at |-> NullTime, lock_expires_at |-> NullTime,
   result |-> NULL, last_error |-> NULL]

Enqueue(type, tool, priority, max_attempts) ==
  /\ Len(tasks) < MaxTasks
  /\ tasks' = Append(tasks,
       NewTask(Len(tasks) + 1, type, tool, priority, max_attempts, now))
  /\ memory' = Append(memory, <<>>)
  /\ UNCHANGED <<orch, now, pc, row, err, faults>>

Tick(limit) ==
  /\ now < limit
  /\ now' = now + 1
  /\ UNCHANGED <<orch, tasks, memory, pc, row, err, faults>>

(* --------------------------- claim_task ------------------------------- *)

\* cur.execute(sql): the statement picks a candidate, locks its row and
\* computes the updated row; nothing is visible to others before the commit.
ClaimExecute(w) ==
  /\ pc[w] = "poll"
  /\ \E i \in Candidates(tasks, now, LockedRows) :
       row' = [row EXCEPT ![w] = claim_update(tasks[i], w, now, LockS)]
  /\ pc' = [pc EXCEPT ![w] = "claim_tx"]
  /\ UNCHANGED <<orch, tasks, memory, now, err, faults>>

\* conn.commit(); return row
ClaimCommit(w) ==
  /\ pc[w] = "claim_tx"
  /\ tasks' = [tasks EXCEPT ![row[w].id] = row[w]]
  /\ pc' = [pc EXCEPT ![w] = "ev_claimed"]
  /\ UNCHANGED <<orch, memory, now, row, err, faults>>

\* No candidate: claim_task returns None, run_once returns False and
\* run_forever sleeps poll_s before it polls again.
ClaimNone(w) ==
  /\ pc[w] = "poll"
  /\ Candidates(tasks, now, LockedRows) = {}
  /\ pc' = [pc EXCEPT ![w] = "sleep"]
  /\ UNCHANGED <<orch, tasks, memory, now, row, err, faults>>

\* time.sleep(cfg.poll_s) returns and the loop polls again.
Wake(w) ==
  /\ pc[w] = "sleep"
  /\ pc' = [pc EXCEPT ![w] = "poll"]
  /\ UNCHANGED <<orch, tasks, memory, now, row, err, faults>>

\* The store call fails: claim_task is called outside any try, the
\* exception leaves run_once and run_forever.
ClaimRaise(w) ==
  /\ faults < MaxFaults
  /\ faults' = faults + 1
  /\ pc[w] \in {"poll", "claim_tx"}
  /\ pc' = [pc EXCEPT ![w] = "crashed"]
  /\ row' = [row EXCEPT ![w] = NoRow]
  /\ UNCHANGED <<orch, tasks, memory, now, err>>

(* ----------------------------- run_once ------------------------------- *)

\* _event(task.claimed), before the try block
EventClaimed(w) ==
  /\ pc[w] = "ev_claimed"
  /\ memory' = Appended(memory, Envelope("task.claimed", row[w], 0))
  /\ pc' = [pc EXCEPT ![w] = "begin"]
  /\ UNCHANGED <<orch, tasks, now, row, err, faults>>

\* The exception of _event(task.claimed) is caught by a loop that polls
\* again, with the claimed row left as it is.
EventClaimedRaiseResumes(w) ==
  /\ faults < MaxFaults
  /\ faults' = faults + 1
  /\ pc[w] = "ev_claimed"
  /\ pc' = [pc EXCEPT ![w] = "poll"]
  /\ row' = [row EXCEPT ![w] = NoRow]
  /\ UNCHANGED <<orch, tasks, memory, now, err>>

\* write_event raises before the try block: the exception leaves run_once.
EventClaimedRaise(w) ==
  /\ faults < MaxFaults
  /\ faults' = faults + 1
  /\ pc[w] = "ev_claimed"
  /\ pc' = [pc EXCEPT ![w] = "crashed"]
  /\ UNCHANGED <<orch, tasks, memory, now, row, err>>

\* try: the begin event of a dispatched type
EventBegin(w) ==
  /\ pc[w] = "begin"
  /\ row[w].type \in Dispatched
  /\ memory' = Appended(memory, Envelope(BeginType(row[w].type), row[w], 0))
  /\ pc' = [pc EXCEPT ![w] = "handler"]
  /\ UNCHANGED <<orch, tasks, now, row, err, faults>>

EventBeginRaise(w) ==
  /\ faults < MaxFaults
  /\ faults' = faults + 1
  /\ pc[w] = "begin"
  /\ row[w].type \in Dispatched
  /\ pc' = [pc EXCEPT ![w] = "failure"]
  /\ err' = [err EXCEPT ![w] = "StoreError"]
  /\ UNCHANGED <<orch, tasks, memory, now, row>>

\* raise ValueError(f"unknown task type: {task_type}")
DispatchUnknown(w) ==
  /\ pc[w] = "begin"
  /\ row[w].type \notin Dispatched
  /\ pc' = [pc EXCEPT ![w] = "failure"]
  /\ err' = [err EXCEPT ![w] = "ValueError"]
  /\ UNCHANGED <<orch, tasks, memory, now, row, faults>>

\* handle_tool_call: TOOLS.run raises for a tool that is not registered;
\* handle_patch_apply: the outcome of git is not decided by the queue.
HandlerCanSucceed(r) ==
  IF r.type = "tool.call" THEN r.tool \in RegisteredTools ELSE TRUE

HandlerCanRaise(r) ==
  IF r.type = "tool.call" THEN r.tool \notin RegisteredTools ELSE TRUE

HandlerOk(w) ==
  /\ pc[w] = "handler"
  /\ HandlerCanSucceed(row[w])
  /\ pc' = [pc EXCEPT ![w] = "success"]
  /\ UNCHANGED <<orch, tasks, memory, now, row, err, faults>>

HandlerRaise(w) ==
  /\ pc[w] = "handler"
  /\ HandlerCanRaise(row[w])
  /\ pc' = [pc EXCEPT ![w] = "failure"]
  /\ err' = [err EXCEPT ![w] = "ValueError"]
  /\ UNCHANGED <<orch, tasks, memory, now, row, faults>>

\* complete_task_success(task_id, result): UPDATE ... WHERE id = task_id
CompleteSuccess(w) ==
  /\ pc[w] = "success"
  /\ tasks' = [tasks EXCEPT ![row[w].id] = complete_task_success(@, "result")]
  /\ pc' = [pc EXCEPT ![w] = "ev_result"]
  /\ UNCHANGED <<orch, memory, now, row, err, faults>>

CompleteSuccessRaise(w) ==
  /\ faults < MaxFaults
  /\ faults' = faults + 1
  /\ pc[w] = "success"
  /\ pc' = [pc EXCEPT ![w] = "failure"]
  /\ err' = [err EXCEPT ![w] = "StoreError"]
  /\ UNCHANGED <<orch, tasks, memory, now, row>>

\* _event(<result>) after complete_task_success, still inside the try
EventResult(w) ==
  /\ pc[w] = "ev_result"
  /\ memory' = Appended(memory, Envelope(ResultType(row[w].type), row[w], 0))
  /\ pc' = [pc EXCEPT ![w] = "poll"]
  /\ row' = [row EXCEPT ![w] = NoRow]
  /\ UNCHANGED <<orch, tasks, now, err, faults>>

EventResultRaise(w) ==
  /\ faults < MaxFaults
  /\ faults' = faults + 1
  /\ pc[w] = "ev_result"
  /\ pc' = [pc EXCEPT ![w] = "failure"]
  /\ err' = [err EXCEPT ![w] = "StoreError"]
  /\ UNCHANGED <<orch, tasks, memory, now, row>>

\* The backoff the except branch computes from the attempts it observed.
RetryBackoff(r) == compute_backoff_s(Max(1, r.attempts))

\* except Exception: complete_task_failure(task_id, err, retry_backoff_s)
CompleteFailure(w) ==
  /\ pc[w] = "failure"
  /\ tasks' = [tasks EXCEPT ![row[w].id] =
       complete_task_failure(@, err[w], RetryBackoff(row[w]), now)]
  /\ pc' = [pc EXCEPT ![w] = "ev_failed"]
  /\ UNCHANGED <<orch, memory, now, row, err, faults>>

\* An exception inside the except branch leaves run_once.
CompleteFailureRaise(w) ==
  /\ faults < MaxFaults
  /\ faults' = faults + 1
  /\ pc[w] = "failure"
  /\ pc' = [pc EXCEPT ![w] = "crashed"]
  /\ UNCHANGED <<orch, tasks, memory, now, row, err>>

\* _event(task.failed); return True
EventFailed(w) ==
  /\ pc[w] = "ev_failed"
  /\ memory' = Appended(memory, Envelope("task.failed", row[w], RetryBackoff(row[w])))
  /\ pc' = [pc EXCEPT ![w] = "poll"]
  /\ row' = [row EXCEPT ![w] = NoRow]
  /\ err' = [err EXCEPT ![w] = NULL]
  /\ UNCHANGED <<orch, tasks, now, faults>>

EventFailedRaise(w) ==
  /\ faults < MaxFaults
  /\ faults' = faults + 1
  /\ pc[w] = "ev_failed"
  /\ pc' = [pc EXCEPT ![w] = "crashed"]
  /\ UNCHANGED <<orch, tasks, memory, now, row, err>>

\* The worker process dies.  An open claim transaction is rolled back, so
\* its row lock goes and the row stays as it was.
Kill(w) ==
  /\ faults < MaxFaults
  /\ faults' = faults + 1
  /\ pc[w] \notin {"dead", "crashed"}
  /\ pc' = [pc EXCEPT ![w] = "dead"]
  /\ row' = [row EXCEPT ![w] = IF pc[w] = "claim_tx" THEN NoRow ELSE @]
  /\ UNCHANGED <<orch, tasks, memory, now, err>>

(* --------------------------- specification ---------------------------- *)

\* The steps of a worker whose store calls all succeed.
WorkerStep(w) ==
  \/ ClaimExecute(w)
  \/ ClaimCommit(w)
  \/ ClaimNone(w)
  \/ Wake(w)
  \/ EventClaimed(w)
  \/ EventBegin(w)
  \/ DispatchUnknown(w)
  \/ HandlerOk(w)
  \/ HandlerRaise(w)
  \/ CompleteSuccess(w)
  \/ EventResult(w)
  \/ CompleteFailure(w)
  \/ EventFailed(w)

\* The steps in which a store call raises.
StoreFault(w) ==
  \/ ClaimRaise(w)
  \/ EventClaimedRaise(w)
  \/ EventBeginRaise(w)
  \/ CompleteSuccessRaise(w)
  \/ EventResultRaise(w)
  \/ CompleteFailureRaise(w)
  \/ EventFailedRaise(w)

\* The payloads a task of a type may carry: the tool of a tool.call.
PayloadsOf(type) == IF type = "tool.call" THEN PayloadTools ELSE {NULL}

EnqueueAny ==
  \E type \in TaskTypes, priority \in Priorities :
    \E tool \in PayloadsOf(type) :
      Enqueue(type, tool, priority, EnqueuedMaxAttempts)

Next ==
  \/ EnqueueAny
  \/ Tick(MaxTime)
  \/ \E w \in Workers : WorkerStep(w)
  \/ \E w \in Workers : StoreFault(w)
  \/ \E w \in Workers : Kill(w)

Spec == Init /\ [][Next]_vars

\* One task as the demo enqueuer inserts it (default max_attempts, priority
\* 10), of any type, and a store that never fails.
InitOne ==
  /\ \E type \in TaskTypes : \E tool \in PayloadsOf(type) :
       tasks = <<NewTask(1, type, tool, DemoPriority, DefaultMaxAttempts, 0)>>
  /\ memory = << <<>> >>
  /\ now = 0
  /\ faults = 0
  /\ WorkerInit
  /\ OrchIdle

NextHealthy ==
  \/ Tick(Horizon)
  \/ \E w \in Workers : WorkerStep(w)

SpecHealthy == InitOne /\ [][NextHealthy]_vars

\* One task, and every fault: store calls that raise and worker processes
\* that die.
NextFaulty ==
  \/ Tick(Horizon)
  \/ \E w \in Workers : WorkerStep(w)
  \/ \E w \in Workers : StoreFault(w)
  \/ \E w \in Workers : Kill(w)

SpecFaulty == InitOne /\ [][NextFaulty]_vars

TypeOK ==
  /\ now \in 0..Horizon
  /\ Len(tasks) <= MaxTasks
  /\ \A w \in Workers : pc[w] \in {"poll", "sleep", "claim_tx", "ev_claimed", "begin",
       "handler", "success", "ev_result", "failure", "ev_failed", "crashed", "dead"}

(* ===================== the orchestrator: app.py ======================= *)

(* ------------------------------ bounds -------------------------------- *)

\* Rows the memory table may hold when traces are read.
MaxRows == 3

\* Rows the memory table may hold when /ask is served.
MaxPhrases == 2

\* HTTP requests the orchestrator serves in one behaviour.
MaxRequests == 2

(* ------------------------- inputs of /ask ----------------------------- *)

\* X-Run-Id values a client presets.
RunIds == {"r1", "r2"}

\* str(uuid.uuid4()) of the n-th request.
Uuid(n) == <<"uuid-1", "uuid-2", "uuid-3", "uuid-4", "uuid-5", "uuid-6">>[n]

RememberPrompt == "Remember this exact phrase: blue_giraffe_42"

RecallPrompt == "What exact phrase did I ask you to remember?"

\* The prompts a client posts: a blank one, a remember prompt, a remember
\* prompt without a phrase, the recall prompt and a question.
Prompts == {"   ", RememberPrompt, "remember this exact phrase:", RecallPrompt, "hello"}

PingCall == "{\"tool\":\"ping\",\"args\":{\"message\":\"hi\"}}"

NopeCall == "{\"tool\":\"nope\",\"args\":{}}"

\* What the chat model may answer: text, or a strict tool-call object for a
\* registered or an unregistered tool.
ModelOutputs == {"final answer", PingCall, NopeCall}

\* str.strip() on the strings of the model.
Strip(s) ==
  CASE s = "   " -> ""
    [] s = "  " -> ""
    [] s = " red_fox " -> "red_fox"
    [] OTHER -> s

\* _REMEMBER_RX.match(p): group 1, or NULL when the pattern does not match.
\* The group is (.+): a prompt that ends at the colon does not match.
REMEMBER_RX(p) == IF p = RememberPrompt THEN "blue_giraffe_42" ELSE NULL

\* _RECALL_RX.match(p)
RECALL_RX(p) == p = RecallPrompt

classify_mode(prompt) ==
  IF Strip(prompt) = "" THEN "empty"
  ELSE IF REMEMBER_RX(Strip(prompt)) # NULL THEN "remember"
  ELSE IF RECALL_RX(Strip(prompt)) THEN "recall"
  ELSE "chat"

extract_phrase(prompt) ==
  IF REMEMBER_RX(Strip(prompt)) # NULL THEN Strip(REMEMBER_RX(Strip(prompt))) ELSE ""

\* parse_tool_call(text): the tool and whether the text is a tool call.
parse_tool_call(text) ==
  CASE text = PingCall -> [ok |-> TRUE, tool |-> "ping"]
    [] text = NopeCall -> [ok |-> TRUE, tool |-> "nope"]
    [] OTHER -> [ok |-> FALSE, tool |-> NULL]

(* ------------------------ memory/events.py ---------------------------- *)

\* The keyword parameters of make_event.
MakeEventParams == {"type", "source", "data", "ts"}

\* make_event(**kw): Python raises TypeError for a keyword the signature
\* does not have; else the arguments are validated and the envelope built.
make_event(kw) ==
  IF ~(DOMAIN kw \subseteq MakeEventParams)
    THEN [ok |-> FALSE, error |-> "TypeError"]
  ELSE IF kw.type = "" \/ kw.source = ""
    THEN [ok |-> FALSE, error |-> "ValueError"]
  ELSE [ok |-> TRUE, error |-> NULL]

\* The keywords app.py passes: type, source, data and run_id.
AskEvent(type, source, run_id) ==
  [type |-> type, source |-> source, data |-> "data", run_id |-> run_id]

(* ------------------------------ db.py --------------------------------- *)

\* content of the rows a client of insert_memory stores: a remembered
\* phrase (PHRASE:<phrase>, in either case, padded or blank), a note, or
\* an event (EVENT:<json>) of a type and of a run; NULL is JSON null.
PhraseContents ==
  {[tag |-> "PHRASE:", body |-> "blue_giraffe_42", type |-> NULL, run_id |-> NULL],
   [tag |-> "phrase:", body |-> " red_fox ", type |-> NULL, run_id |-> NULL],
   [tag |-> "PHRASE:", body |-> "  ", type |-> NULL, run_id |-> NULL]}

NoteContents == {[tag |-> "", body |-> "a note", type |-> NULL, run_id |-> NULL]}

EventContents ==
  {[tag |-> "EVENT:", body |-> "", type |-> t, run_id |-> r] :
     t \in {"tool_call", "response"}, r \in RunIds \cup {NULL}}

\* insert_memory(source, content, embedding, tool): one row, created_at =
\* now(utc).  The embedding goes into the INSERT as it is passed, whatever
\* its length.
insert_memory(rs, content, embedding, tool, nw) ==
  Append(rs, [content |-> content, embedding |-> embedding, tool |-> tool,
              created_at |-> nw])

\* content ILIKE 'PHRASE:%'
ILikePhrase(content) == content.tag \in {"PHRASE:", "phrase:"}

\* The rows the query of get_latest_phrase selects from.
PhraseRows(rs, include_tools) ==
  {i \in DOMAIN rs : /\ ILikePhrase(rs[i].content)
                     /\ (include_tools \/ rs[i].tool \in {NULL, ""})}

\* get_latest_phrase that leaves the tool clause out.
get_latest_phrase_all_tools(rs, include_tools) ==
  IF PhraseRows(rs, TRUE) = {} THEN {NULL}
  ELSE {Strip(rs[i].content.body) :
          i \in {j \in PhraseRows(rs, TRUE) :
                   \A k \in PhraseRows(rs, TRUE) : rs[k].created_at <= rs[j].created_at}}

\* get_latest_phrase: ORDER BY created_at DESC LIMIT 1, then the text after
\* the first colon, stripped; None when no row matches.  Rows that share the
\* latest created_at may each be the one returned.
get_latest_phrase(rs, include_tools) ==
  IF PhraseRows(rs, include_tools) = {} THEN {NULL}
  ELSE {Strip(rs[i].content.body) :
          i \in {j \in PhraseRows(rs, include_tools) :
                   \A k \in PhraseRows(rs, include_tools) :
                      rs[k].created_at <= rs[j].created_at}}

(* --------------------------- memory/trace.py -------------------------- *)

\* The text after EVENT: of a row that is not JSON.
MalformedBody == "{not json"

\* substring(content from 7)::json raises for a row that passed the LIKE
\* and whose text is not JSON, and the statement fails.
CastFails(rs) ==
  \E i \in DOMAIN rs :
    rs[i].content.tag = "EVENT:" /\ rs[i].content.body = MalformedBody

\* The WHERE clause without its run_id test.
TraceRowsAnyRun(rs, run_id) == {i \in DOMAIN rs : rs[i].content.tag = "EVENT:"}

\* WHERE content LIKE 'EVENT:%' AND (json ->> 'run_id') = run_id
TraceRows(rs, run_id) ==
  {i \in DOMAIN rs : rs[i].content.tag = "EVENT:" /\ rs[i].content.run_id = run_id}

\* The orders ORDER BY created_at ASC may return a set of rows in.
OrderedByCreatedAt(rs, sel) ==
  {s \in [1..Cardinality(sel) -> sel] :
     /\ \A k \in DOMAIN s : \A l \in DOMAIN s : k # l => s[k] # s[l]
     /\ \A k \in DOMAIN s : \A l \in DOMAIN s :
          k < l => rs[s[k]].created_at <= rs[s[l]].created_at}

\* get_trace(run_id): the rows of the run, as row numbers, in each order
\* the query may return them.
get_trace(rs, run_id) == OrderedByCreatedAt(rs, TraceRows(rs, run_id))

(* ----------------------- db.py: search_memories ----------------------- *)

\* len(emb) that ollama_embed insists on (EXPECTED_EMBED_DIM, default 1024,
\* set by the environment).
EXPECTED_EMBED_DIM == 2

\* Embeddings of EXPECTED_EMBED_DIM components: nonzero vectors whose norms
\* are whole numbers, which _vector_literal renders exactly.
Vectors == {<<1, 0>>, <<0, 1>>, <<3, 4>>, <<4, 3>>}

Dot(a, b) == a[1] * b[1] + a[2] * b[2]

Norm(a) == CHOOSE n \in 0..8 : n * n = Dot(a, a)

\* 1 - (embedding <=> qvec), in thousandths.
CosineSim(a, q) == (1000 * Dot(a, q)) \div (Norm(a) * Norm(q))

\* embedding <=> qvec: the cosine distance, in thousandths.
CosineDistance(a, q) == 1000 - CosineSim(a, q)

\* The WHERE clause without the tool clause, whatever include_tools is.
SearchRowsAllTools(rs, q, min_similarity, include_tools) ==
  {i \in DOMAIN rs : /\ rs[i].embedding # NullVector
                     /\ CosineSim(rs[i].embedding, q) >= min_similarity}

\* WHERE embedding IS NOT NULL [AND (tool IS NULL OR tool = '')]
\*   AND (1 - (embedding <=> qvec)) >= min_similarity
SearchRows(rs, q, min_similarity, include_tools) ==
  {i \in DOMAIN rs : /\ rs[i].embedding # NullVector
                     /\ (include_tools \/ rs[i].tool \in {NULL, ""})
                     /\ CosineSim(rs[i].embedding, q) >= min_similarity}

\* The orders ORDER BY embedding <=> qvec may return a set of rows in.
OrderedByDistance(rs, q, sel) ==
  {s \in [1..Cardinality(sel) -> sel] :
     /\ \A k \in DOMAIN s : \A l \in DOMAIN s : k # l => s[k] # s[l]
     /\ \A k \in DOMAIN s : \A l \in DOMAIN s :
          k < l => CosineDistance(rs[s[k]].embedding, q)
                     <= CosineDistance(rs[s[l]].embedding, q)}

\* search_memories(query_embedding, top_k, min_similarity, include_tools):
\* the rows, as row numbers, in each order the query may return them, cut
\* by LIMIT top_k.
search_memories(rs, q, top_k, min_similarity, include_tools) ==
  {SubSeq(s, 1, Min(top_k, Len(s))) :
     s \in OrderedByDistance(rs, q, SearchRows(rs, q, min_similarity, include_tools))}

\* The row of the memory table that holds an event of the worker.
EventRow(e) ==
  [content |-> [tag |-> "EVENT:", body |-> "", type |-> e.type, run_id |-> NULL],
   embedding |-> e.embedding, tool |-> e.tool, created_at |-> 0]

\* The rows of the events of the tasks 1..t.
RECURSIVE EventRows(_, _)
EventRows(mem, t) ==
  IF t = 0 THEN <<>>
           ELSE EventRows(mem, t - 1) \o [i \in DOMAIN mem[t] |-> EventRow(mem[t][i])]

\* The memory table: the rows written through the orchestrator's side of
\* the store and the rows of the worker's events.
MemoryTable == rows \o EventRows(memory, Len(memory))

(* ----------------------- api/observability.py ------------------------- *)

\* The handler returned, or raised HTTPException, which FastAPI turns into
\* a response inside call_next: dispatch sets X-Run-Id on it.
Responded(r, status, error, response) ==
  [r EXCEPT !.pc = "done", !.status = status, !.error = error,
            !.response = response,
            !.body_run_id = IF status = 200 THEN r.run_id ELSE NULL,
            !.resp_header = r.run_id]

\* Any other exception leaves call_next: dispatch logs request_error and
\* re-raises, and the 500 the server answers with has no X-Run-Id.
Unhandled(r, error) ==
  [r EXCEPT !.pc = "done", !.status = 500, !.error = error, !.resp_header = NULL]

\* The state of the task queue, which the orchestrator does not touch.
queue == <<tasks, memory, pc, row, err, faults>>

\* A client sends a request: POST /ask with a prompt, or GET /trace/<arg>.
Receive(path, header, prompt, arg, include_tools) ==
  /\ req.pc \in {"idle", "done"}
  /\ req.n < MaxRequests
  /\ req' = [NoRequest EXCEPT !.pc = "dispatch", !.n = req.n + 1, !.path = path,
                              !.header = header, !.prompt = prompt, !.arg = arg,
                              !.include_tools = include_tools]
  /\ UNCHANGED <<queue, now, rows, remembered, call>>

\* RequestLoggingMiddleware.dispatch, up to call_next
Dispatch ==
  /\ req.pc = "dispatch"
  /\ req' = [req EXCEPT !.pc = "handler",
                        !.run_id = IF req.header \notin {NULL, ""}
                                     THEN req.header ELSE Uuid(req.n)]
  /\ UNCHANGED <<queue, now, rows, remembered, call>>

(* ------------------------------ app.py -------------------------------- *)

\* ask: an empty prompt
AskBadRequest ==
  /\ req.pc = "handler" /\ req.path = "/ask"
  /\ Strip(req.prompt) = ""
  /\ req' = Responded(req, 400, "prompt is required", NULL)
  /\ UNCHANGED <<queue, now, rows, remembered, call>>

\* ask, mode remember: make_event raises before anything is written.
AskRemember ==
  /\ req.pc = "handler" /\ req.path = "/ask"
  /\ classify_mode(req.prompt) = "remember"
  /\ extract_phrase(req.prompt) # ""
  /\ ~make_event(AskEvent("remember_phrase", "orchestrator", req.run_id)).ok
  /\ req' = Unhandled([req EXCEPT !.mode = "remember"],
                      make_event(AskEvent("remember_phrase", "orchestrator", req.run_id)).error)
  /\ remembered' = extract_phrase(req.prompt)
  /\ UNCHANGED <<queue, now, rows, call>>

\* The rows a recall adds to the memory table, and a recall event.
RecallPersisted(rs, nw) ==
  insert_memory(rs, [tag |-> "EVENT:", body |-> "", type |-> "recall", run_id |-> NULL],
                NullVector, "recall", nw)

\* The memory table after a recall: "memory_id": None, nothing is persisted.
RecallRows(rs, nw) == rs

\* ask, mode recall
AskRecall ==
  /\ req.pc = "handler" /\ req.path = "/ask"
  /\ classify_mode(req.prompt) = "recall"
  /\ \E phrase \in get_latest_phrase(rows, req.include_tools) :
       req' = IF phrase \in {NULL, ""}
                THEN Responded([req EXCEPT !.mode = "recall"], 404,
                               "No remembered phrase found", NULL)
                ELSE Responded([req EXCEPT !.mode = "recall"], 200, NULL, phrase)
  /\ rows' = RecallRows(rows, now)
  /\ UNCHANGED <<queue, now, remembered, call>>

\* ask, mode chat: ollama_embed
Embed ==
  /\ req.pc = "handler" /\ req.path = "/ask"
  /\ classify_mode(req.prompt) = "chat"
  /\ req' = [req EXCEPT !.pc = "search", !.mode = "chat", !.embed_calls = @ + 1]
  /\ UNCHANGED <<queue, now, rows, remembered, call>>

EmbedRaise ==
  /\ req.pc = "handler" /\ req.path = "/ask"
  /\ classify_mode(req.prompt) = "chat"
  /\ req' = Responded([req EXCEPT !.mode = "chat", !.embed_calls = @ + 1],
                      500, "Embedding failed", NULL)
  /\ UNCHANGED <<queue, now, rows, remembered, call>>

\* get_top_k(): TOP_K, default 5
TOP_K == 5

\* get_min_similarity(): MIN_SIMILARITY, default 0.6, in thousandths
MIN_SIMILARITY == 600

\* search_memories(query_embedding=query_emb, top_k=TOP_K,
\* min_similarity=MIN_SIMILARITY, include_tools=INCLUDE_TOOLS)
Search ==
  /\ req.pc = "search"
  /\ \E q \in Vectors :
       \E out \in search_memories(MemoryTable, q, TOP_K, MIN_SIMILARITY,
                                  req.include_tools) :
         req' = [req EXCEPT !.pc = "chat", !.retrieved = out]
  /\ UNCHANGED <<queue, now, rows, remembered, call>>

SearchRaise ==
  /\ req.pc = "search"
  /\ req' = Responded(req, 500, "Memory search failed", NULL)
  /\ UNCHANGED <<queue, now, rows, remembered, call>>

\* 1) First model call
Chat(out) ==
  /\ req.pc = "chat"
  /\ req' = [req EXCEPT !.pc = "persist", !.chat_calls = @ + 1, !.model_out = out]
  /\ UNCHANGED <<queue, now, rows, remembered, call>>

\* The first chat call fails and ask records the failure as an event.
ChatRaisePersists ==
  /\ req.pc = "chat"
  /\ req' = Responded([req EXCEPT !.chat_calls = @ + 1], 500, "Generation failed", NULL)
  /\ rows' = insert_memory(rows, [tag |-> "EVENT:", body |-> "", type |-> "response",
                                  run_id |-> req.run_id], NullVector, "response", now)
  /\ UNCHANGED <<queue, now, remembered, call>>

ChatRaise ==
  /\ req.pc = "chat"
  /\ req' = Responded([req EXCEPT !.chat_calls = @ + 1], 500, "Generation failed", NULL)
  /\ UNCHANGED <<queue, now, rows, remembered, call>>

\* 2) The model output is a tool call: make_event(type="tool_call", ...,
\* run_id=run_id) raises before the tool runs.
AskToolCallEvent ==
  /\ req.pc = "persist"
  /\ parse_tool_call(req.model_out).ok
  /\ ~make_event(AskEvent("tool_call", "orchestrator", req.run_id)).ok
  /\ req' = Unhandled(req, make_event(AskEvent("tool_call", "orchestrator", req.run_id)).error)
  /\ UNCHANGED <<queue, now, rows, remembered, call>>

\* 3) No tool call: make_event(type="response", ..., run_id=run_id) raises.
AskResponseEvent ==
  /\ req.pc = "persist"
  /\ ~parse_tool_call(req.model_out).ok
  /\ ~make_event(AskEvent("response", "orchestrator", req.run_id)).ok
  /\ req' = Unhandled(req, make_event(AskEvent("response", "orchestrator", req.run_id)).error)
  /\ UNCHANGED <<queue, now, rows, remembered, call>>

\* trace: GET /trace/{run_id}
Trace ==
  /\ req.pc = "handler" /\ req.path = "/trace"
  /\ ~CastFails(rows)
  /\ \E out \in get_trace(rows, req.arg) :
       req' = [Responded(req, 200, NULL, NULL) EXCEPT !.sel = out,
                                                       !.body_run_id = req.arg]
  /\ UNCHANGED <<queue, now, rows, remembered, call>>

\* trace: cur.execute in get_trace raises, and neither get_trace nor trace
\* catches it.
TraceRaise ==
  /\ req.pc = "handler" /\ req.path = "/trace"
  /\ CastFails(rows)
  /\ req' = Unhandled(req, "InvalidTextRepresentation")
  /\ UNCHANGED <<queue, now, rows, remembered, call>>

\* A client of the store inserts a row.
InsertMemory(content, embedding, tool, limit) ==
  /\ Len(rows) < limit
  /\ rows' = insert_memory(rows, content, embedding, tool, now)
  /\ UNCHANGED <<queue, now, req, remembered, call>>

(* ------------------- specifications of the orchestrator --------------- *)

\* The tool column of a phrase or a note: NULL, or the name of a tool.
RowTools == {NULL, "ping"}

InsertPhrase ==
  \E content \in PhraseContents \cup NoteContents, tool \in RowTools :
    InsertMemory(content, NullVector, tool, MaxPhrases)

\* An event row carries its type in the tool column (write_event).
InsertEvent ==
  \E content \in EventContents : InsertMemory(content, NullVector, content.type, MaxRows)

InsertNote == \E content \in NoteContents : InsertMemory(content, NullVector, NULL, MaxRows)

ReceiveAsk ==
  \E header \in {NULL, "r1"}, prompt \in Prompts, include_tools \in BOOLEAN :
    Receive("/ask", header, prompt, NULL, include_tools)

ReceiveTrace ==
  \E header \in {NULL, "r1"}, arg \in RunIds : Receive("/trace", header, NULL, arg, FALSE)

\* /ask against a store that holds phrases and notes.
NextAsk ==
  \/ InsertPhrase
  \/ Tick(MaxTime)
  \/ ReceiveAsk
  \/ Dispatch
  \/ AskBadRequest
  \/ AskRemember
  \/ AskRecall
  \/ Embed
  \/ EmbedRaise
  \/ Search
  \/ SearchRaise
  \/ \E out \in ModelOutputs : Chat(out)
  \/ ChatRaise
  \/ AskToolCallEvent
  \/ AskResponseEvent

SpecAsk == Init /\ [][NextAsk]_vars

\* /ask next to a worker on one task, with no other client of the store:
\* the memory table starts empty and holds what the two of them write.
NextStore ==
  \/ Tick(MaxTime)
  \/ \E w \in Workers : WorkerStep(w)
  \/ ReceiveAsk
  \/ Dispatch
  \/ AskBadRequest
  \/ AskRemember
  \/ AskRecall
  \/ Embed
  \/ EmbedRaise
  \/ Search
  \/ SearchRaise
  \/ \E out \in ModelOutputs : Chat(out)
  \/ ChatRaise
  \/ AskToolCallEvent
  \/ AskResponseEvent

SpecStore == InitOne /\ [][NextStore]_vars

ReceiveRecall ==
  \E header \in {NULL, "r1"}, include_tools \in BOOLEAN :
    Receive("/ask", header, RecallPrompt, NULL, include_tools)

\* Recall requests only.
NextRecall ==
  \/ InsertPhrase
  \/ Tick(MaxTime)
  \/ ReceiveRecall
  \/ Dispatch
  \/ AskRecall

SpecRecall == Init /\ [][NextRecall]_vars

\* /trace against a store that holds the events of two runs and notes.
NextTrace ==
  \/ InsertEvent
  \/ InsertNote
  \/ Tick(MaxTime)
  \/ ReceiveTrace
  \/ Dispatch
  \/ Trace

SpecTrace == Init /\ [][NextTrace]_vars

\* content of a row that starts with EVENT: and does not go on as JSON.
MalformedContents ==
  {[tag |-> "EVENT:", body |-> MalformedBody, type |-> NULL, run_id |-> NULL]}

InsertMalformed ==
  \E content \in MalformedContents : InsertMemory(content, NullVector, NULL, MaxRows)

\* /trace against a store that holds events and rows that only start as
\* events.
NextTraceMalformed ==
  \/ InsertEvent
  \/ InsertMalformed
  \/ ReceiveTrace
  \/ Dispatch
  \/ Trace
  \/ TraceRaise

SpecTraceMalformed == Init /\ [][NextTraceMalformed]_vars

(* ------------------------- tools/registry.py -------------------------- *)

\* The keys a schema declares and a caller passes.
ArgKeys == {"message", "count"}

\* Marks a key that a dict does not hold.
Absent == "absent"

\* The Python types of the values a caller passes.
PyTypes == {"str", "int", "float", "bool", "NoneType"}

\* The types a property declares; the four scalar types are the checked ones.
SchemaTypes == {"string", "integer", "number", "boolean", "array"}

\* The isinstance tests of validate_args: bool is a subclass of int.
TypeCheckFails(expected, v) ==
  \/ expected = "string" /\ v # "str"
  \/ expected = "integer" /\ v \notin {"int", "bool"}
  \/ expected = "number" /\ v \notin {"int", "float", "bool"}
  \/ expected = "boolean" /\ v # "bool"

\* validate_args that accepts keys the schema does not declare.
validate_args_lenient(schema, args) ==
  IF schema.type # "object" THEN "Tool schema must be type=object"
  ELSE IF \E k \in schema.required : args[k] = Absent THEN "Missing required arg"
  ELSE IF \E k \in ArgKeys :
            /\ args[k] # Absent
            /\ schema.properties[k] # Absent
            /\ TypeCheckFails(schema.properties[k], args[k])
    THEN "Invalid arg"
  ELSE NULL

\* validate_args(schema, args): the ValueError it raises, NULL if none.
validate_args(schema, args) ==
  IF schema.type # "object" THEN "Tool schema must be type=object"
  ELSE IF \E k \in schema.required : args[k] = Absent THEN "Missing required arg"
  ELSE IF \E k \in ArgKeys :
            /\ args[k] # Absent
            /\ \/ schema.properties[k] = Absent
               \/ TypeCheckFails(schema.properties[k], args[k])
    THEN "Invalid arg"
  ELSE NULL

\* run(name, args): the tool is looked up, the args are validated and the
\* handler, which does not fail, is invoked.
run(registry, name, args) ==
  IF name \notin DOMAIN registry
    THEN [ok |-> FALSE, error |-> "Unknown tool", invoked |-> FALSE]
  ELSE IF validate_args(registry[name].schema, args) # NULL
    THEN [ok |-> FALSE, error |-> validate_args(registry[name].schema, args),
          invoked |-> FALSE]
  ELSE [ok |-> TRUE, error |-> NULL, invoked |-> TRUE]

\* A registry with the one tool default_registry registers, under a schema.
Registry(schema) == [n \in RegisteredTools |-> [name |-> n, schema |-> schema]]

\* The schemas a ToolSpec may carry: type object, typed properties and
\* required keys.
Schemas ==
  {[type |-> "object", properties |-> p, required |-> r] :
     p \in [ArgKeys -> SchemaTypes \cup {Absent}], r \in SUBSET ArgKeys}

\* A caller is about to run a tool by name with args.
InitRegistry ==
  /\ tasks = <<>>
  /\ memory = <<>>
  /\ now = 0
  /\ faults = 0
  /\ WorkerInit
  /\ rows = <<>>
  /\ req = NoRequest
  /\ remembered = NULL
  /\ \E name \in PayloadTools, schema \in Schemas,
        args \in [ArgKeys -> PyTypes \cup {Absent}] :
       call = [pc |-> "call", name |-> name, schema |-> schema, args |-> args,
               result |-> [ok |-> FALSE, error |-> NULL, invoked |-> FALSE]]

\* TOOLS.run(name, args)
Run ==
  /\ call.pc = "call"
  /\ call' = [call EXCEPT !.pc = "returned",
                          !.result = run(Registry(call.schema), call.name, call.args)]
  /\ UNCHANGED <<queue, now, rows, req, remembered>>

NextRegistry == Run

SpecRegistry == InitRegistry /\ [][NextRegistry]_vars

(* ------------------- search_memories and its callers ------------------ *)

\* top_k as callers set it: 1, 2, and the default 5.
TopKs == {1, 2, 5}

\* min_similarity in thousandths: 0, the default of search_memories (0.2)
\* and the default of MIN_SIMILARITY (0.6).
MinSimilarities == {0, 200, 600}

\* A caller runs search_memories on the store.
SearchMemories(q, top_k, min_similarity, include_tools) ==
  /\ call.pc = "idle"
  /\ \E out \in search_memories(rows, q, top_k, min_similarity, include_tools) :
       call' = [pc |-> "returned", fn |-> "search_memories", q |-> q, top_k |-> top_k,
                min_similarity |-> min_similarity, include_tools |-> include_tools,
                result |-> out]
  /\ UNCHANGED <<queue, now, rows, req, remembered>>

\* A client stores a note with an embedding, or without one.
InsertEmbedded ==
  \E content \in NoteContents, embedding \in Vectors \cup {NullVector},
     tool \in RowTools :
    InsertMemory(content, embedding, tool, MaxRows)

SearchAny ==
  \E q \in Vectors, top_k \in TopKs, min_similarity \in MinSimilarities,
     include_tools \in BOOLEAN :
    SearchMemories(q, top_k, min_similarity, include_tools)

\* Searches against a store of embedded notes.
NextSearch ==
  \/ InsertEmbedded
  \/ SearchAny

SpecSearch == Init /\ [][NextSearch]_vars

(* ------------------------ db.py: insert_memory ------------------------ *)

\* Embeddings a caller may pass: none, one of EXPECTED_EMBED_DIM components
\* and ones that are shorter or longer.
PassedEmbeddings == {NullVector, <<1, 0>>, <<1>>, <<1, 0, 0>>}

\* insert_memory(source, content, embedding): the function does not look at
\* len(embedding); the INSERT is executed and the row is written.
InsertAnyLength ==
  \E content \in NoteContents, embedding \in PassedEmbeddings :
    InsertMemory(content, embedding, NULL, MaxRows)

\* cur.execute raises: the store refuses the INSERT, here for a vector its
\* column does not take, and no row is written.
InsertRefused ==
  /\ Len(rows) < MaxRows
  /\ \E embedding \in PassedEmbeddings :
       /\ embedding # NullVector
       /\ Len(embedding) # EXPECTED_EMBED_DIM
       /\ call' = [pc |-> "raised", fn |-> "insert_memory", embedding |-> embedding]
  /\ UNCHANGED <<queue, now, rows, req, remembered>>

\* insert_memory calls with embeddings of any length.
NextInsert ==
  \/ InsertAnyLength
  \/ InsertRefused
  \/ Tick(MaxTime)

SpecInsert == Init /\ [][NextInsert]_vars

(* ------------------- the worker's backoff schedule -------------------- *)

\* max_attempts of a task that may fail until its backoff has reached the
\* ceiling twice.
BackoffMaxAttempts == 7

\* The clock's range for that task: the six backoffs it waits for, 1 + 2 +
\* 4 + 8 + 16 + 30 seconds.
BackoffHorizon == 61

\* One task of any type with that max_attempts; every attempt of a
\* tool.call whose tool is not registered fails.
InitBackoff ==
  /\ \E type \in TaskTypes : \E tool \in PayloadsOf(type) :
       tasks = <<NewTask(1, type, tool, DemoPriority, BackoffMaxAttempts, 0)>>
  /\ memory = << <<>> >>
  /\ now = 0
  /\ faults = 0
  /\ WorkerInit
  /\ OrchIdle

\* The clock passes over a backoff in one step: it reaches the
\* available_at of a queued row that lies ahead.
Elapse(limit) ==
  /\ \E t \in DOMAIN tasks :
       /\ tasks[t].status = "queued"
       /\ tasks[t].available_at > now
       /\ tasks[t].available_at <= limit
       /\ now' = tasks[t].available_at
  /\ UNCHANGED <<orch, tasks, memory, pc, row, err, faults>>

NextBackoff ==
  \/ Elapse(BackoffHorizon)
  \/ \E w \in Workers : WorkerStep(w)

SpecBackoff == InitBackoff /\ [][NextBackoff]_vars

(* ---------------- memory/events.py, memory/writer.py ------------------ *)

\* The classes of the objects callers hand to write_event: the dataclass
\* make_event returns, and the dict its annotation and write_memory_event
\* give it.
EventClasses == {"MemoryEvent", "dict"}

\* data of an event: a dict of strings, a dict that holds a tuple, and a
\* dict that holds a datetime.
DataValues == {"{'phrase': 'p'}", "{'args': ('a',)}", "{'at': datetime}"}

\* json.dumps(value, ensure_ascii=False, sort_keys=True, separators) with no
\* default: the text, or TypeError for a value that is not JSON-native.
json_dumps(value) ==
  CASE value = "{'phrase': 'p'}" -> [ok |-> TRUE, text |-> "{\"phrase\":\"p\"}"]
    [] value = "{'args': ('a',)}" -> [ok |-> TRUE, text |-> "{\"args\":[\"a\"]}"]
    [] value = "{'at': datetime}" -> [ok |-> FALSE, text |-> "TypeError"]
    [] OTHER -> [ok |-> TRUE, text |-> value]

\* json.loads(text): a JSON array comes back as a list.
json_loads(text) ==
  CASE text = "{\"phrase\":\"p\"}" -> "{'phrase': 'p'}"
    [] text = "{\"args\":[\"a\"]}" -> "{'args': ['a']}"
    [] OTHER -> text

\* The keys event_to_content and event_to_tool_result put into the JSON.
ContentKeys == {"type", "source", "ts", "data"}

\* event_to_content(e): e.type, e.source, e.ts and e.data are read as
\* attributes, which a dict does not have; the payload is the JSON object
\* of these four keys, each value as json.dumps writes it.
event_to_content(e) ==
  IF e.class # "MemoryEvent" THEN [ok |-> FALSE, error |-> "AttributeError"]
  ELSE IF ~json_dumps(e.data).ok THEN [ok |-> FALSE, error |-> "TypeError"]
  ELSE [ok |-> TRUE, error |-> NULL, tag |-> "EVENT:",
        json |-> [k \in ContentKeys |-> json_dumps(e[k]).text]]

\* write_event(event=...): event.get("source", ...) is evaluated first and
\* a MemoryEvent has no get; for a dict event_to_content raises.  Nothing
\* reaches insert_memory.
write_event(event) ==
  IF event.class = "MemoryEvent" THEN [ok |-> FALSE, error |-> "AttributeError"]
  ELSE IF ~event_to_content(event).ok
    THEN [ok |-> FALSE, error |-> event_to_content(event).error]
  ELSE [ok |-> TRUE, error |-> NULL]

\* The events a caller has built: of a type, from a source, with a ts and
\* data.
BuiltEvents ==
  [class : EventClasses,
   type : {"remember_phrase", "tool_call", "tool_result", "response"},
   source : {"orchestrator", "tool:ping"},
   ts : {"2026-01-01T00:00:00+00:00", "2026-01-01T00:00:01+00:00"},
   data : DataValues]

\* A caller holds an event it is about to persist.
InitWrite ==
  /\ tasks = <<>>
  /\ memory = <<>>
  /\ now = 0
  /\ faults = 0
  /\ WorkerInit
  /\ rows = <<>>
  /\ req = NoRequest
  /\ remembered = NULL
  /\ \E e \in BuiltEvents : call = [pc |-> "built", fn |-> NULL, event |-> e]

\* content = event_to_content(event), and the parse of what follows EVENT:
EventToContent ==
  /\ call.pc = "built"
  /\ call' = IF event_to_content(call.event).ok
               THEN [pc |-> "serialized", fn |-> "event_to_content", event |-> call.event,
                     parsed |-> [k \in ContentKeys |->
                                   json_loads(event_to_content(call.event).json[k])]]
               ELSE [pc |-> "raised", fn |-> "event_to_content", event |-> call.event,
                     error |-> event_to_content(call.event).error]
  /\ UNCHANGED <<queue, now, rows, req, remembered>>

\* write_event(event=event): it raises, and the memory table is as it was.
WriteEvent ==
  /\ call.pc = "built"
  /\ ~write_event(call.event).ok
  /\ call' = [pc |-> "raised", fn |-> "write_event", event |-> call.event,
              error |-> write_event(call.event).error]
  /\ UNCHANGED <<queue, now, rows, req, remembered>>

NextWrite ==
  \/ EventToContent
  \/ WriteEvent

SpecWrite == InitWrite /\ [][NextWrite]_vars

(* ------------------------------ claims -------------------------------- *)

Idle(t) == \A w \in Workers : row[w].id # t

EventsOfType(t, type) == SelectSeq(memory[t], LAMBDA e : e.type = type)

ClaimedCount(t) == Len(EventsOfType(t, "task.claimed"))

Failures(t) == EventsOfType(t, "task.failed")

\* The backoff recorded by the task.failed event of attempt a, 0 if none.
FailureBackoff(t, a) ==
  IF \E i \in 1..Len(Failures(t)) : Failures(t)[i].attempts = a
    THEN (CHOOSE e \in {Failures(t)[i] : i \in 1..Len(Failures(t))} :
            e.attempts = a).retry_backoff_s
    ELSE 0

\* A worker that claim_task is handing, or has handed, a row it has not
\* yet passed to complete_task_failure.
HoldsRow(w) ==
  pc[w] \in {"claim_tx", "ev_claimed", "begin", "handler", "success", "failure"}

\* C1: concurrent claim_task calls never pick the same row: a row in the
\* hands of one worker is in the hands of no other, the row of an open claim
\* is still queued for everyone else, and a row a claim returned is running
\* and locked by the worker it was returned to until that worker completes it.
C1_ExactlyOneClaimer ==
  /\ \A w1 \in Workers : \A w2 \in Workers \ {w1} :
       (HoldsRow(w1) /\ HoldsRow(w2)) => row[w1].id # row[w2].id
  /\ \A w \in Workers : pc[w] = "claim_tx" => tasks[row[w].id].status = "queued"
  /\ \A w \in Workers :
       pc[w] \in {"ev_claimed", "begin", "handler", "success"} =>
         /\ tasks[row[w].id].status = "running"
         /\ tasks[row[w].id].locked_by = w
         /\ tasks[row[w].id].attempts = row[w].attempts

\* Two claim_task calls are open at once, each on its own row.
C1_Witness ==
  \E w1 \in Workers : \E w2 \in Workers \ {w1} :
    pc[w1] = "claim_tx" /\ pc[w2] = "claim_tx"

\* C2: a running task whose lease has run out and whose worker is dead is
\* claimable again: it is among the rows the next claim_task may return.
C2_ExpiredLeaseClaimable ==
  \A t \in DOMAIN tasks :
    ( /\ tasks[t].status = "running"
      /\ tasks[t].lock_expires_at < now
      /\ pc[tasks[t].locked_by] = "dead" )
    => t \in Eligible(tasks, now, LockedRows)

\* C3: succeeded and failed are terminal: no step changes the status of a
\* task that is succeeded or failed.
C3_TerminalStatus ==
  [][\A t \in DOMAIN tasks :
       tasks[t].status \in {"succeeded", "failed"}
         => tasks'[t].status = tasks[t].status]_vars

\* C4: attempts never exceeds max_attempts; complete_task_failure on a task
\* whose attempts has reached max_attempts makes it failed; and a failed
\* task stays failed, so it is never queued again.
C4_AttemptsBounded ==
  /\ [](\A t \in DOMAIN tasks : tasks[t].attempts <= tasks[t].max_attempts)
  /\ [][\A t \in DOMAIN tasks :
          /\ tasks[t].status = "failed" => tasks'[t].status = "failed"
          /\ \A w \in Workers :
               ( /\ pc[w] = "failure" /\ pc'[w] = "ev_failed"
                 /\ row[w].id = t
                 /\ tasks[t].attempts >= tasks[t].max_attempts )
               => tasks'[t].status = "failed"]_vars

\* A task has failed for good with its attempts used up.
C4_Witness ==
  \E t \in DOMAIN tasks :
    tasks[t].status = "failed" /\ tasks[t].attempts = tasks[t].max_attempts

\* C5: no exception leaves run_once once a task is claimed: a worker whose
\* loop an exception has ended holds no claimed row.
C5_NoEscape == \A w \in Workers : pc[w] = "crashed" => row[w] = NoRow

\* C6: the effect of complete_task_failure on the row it is called for:
\* failed with available_at kept when attempts >= max_attempts, else queued
\* with available_at = now + retry_backoff_s; last_error set, the lock
\* fields NULL, attempts, max_attempts, payload and priority kept.
C6_FailureEffect ==
  [][\A w \in Workers :
       (pc[w] = "failure" /\ pc'[w] = "ev_failed") =>
         /\ IF tasks[row[w].id].attempts >= tasks[row[w].id].max_attempts
              THEN /\ tasks'[row[w].id].status = "failed"
                   /\ tasks'[row[w].id].available_at = tasks[row[w].id].available_at
              ELSE /\ tasks'[row[w].id].status = "queued"
                   /\ tasks'[row[w].id].available_at = now + RetryBackoff(row[w])
         /\ tasks'[row[w].id].last_error = err[w]
         /\ err[w] # NULL
         /\ tasks'[row[w].id].locked_by = NULL
         /\ tasks'[row[w].id].locked_at = NullTime
         /\ tasks'[row[w].id].lock_expires_at = NullTime
         /\ tasks'[row[w].id].attempts = tasks[row[w].id].attempts
         /\ tasks'[row[w].id].max_attempts = tasks[row[w].id].max_attempts
         /\ tasks'[row[w].id].type = tasks[row[w].id].type
         /\ tasks'[row[w].id].tool = tasks[row[w].id].tool
         /\ tasks'[row[w].id].priority = tasks[row[w].id].priority]_vars

\* complete_task_failure has just re-queued a task after its second
\* failed attempt, with the backoff of two seconds.
C6_Witness ==
  \E w \in Workers :
    /\ pc[w] = "ev_failed"
    /\ tasks[row[w].id].status = "queued"
    /\ tasks[row[w].id].attempts = 2
    /\ tasks[row[w].id].last_error # NULL
    /\ tasks[row[w].id].available_at = now + 2

\* C7: the row a claim_task call picks is queued with available_at <= now
\* and not locked by a concurrent claimer, and no such row has a smaller
\* (priority, created_at).
C7_ClaimOrder ==
  [][\A w \in Workers :
       (pc[w] = "poll" /\ pc'[w] = "claim_tx") =>
         LET Free == {j \in DOMAIN tasks :
                        /\ tasks[j].status = "queued"
                        /\ tasks[j].available_at <= now
                        /\ \A x \in Workers :
                             ~(pc[x] = "claim_tx" /\ row[x].id = j)}
             t == row'[w].id
         IN  /\ t \in Free
             /\ \A j \in Free :
                  \/ tasks[j].priority > tasks[t].priority
                  \/ /\ tasks[j].priority = tasks[t].priority
                     /\ tasks[j].created_at >= tasks[t].created_at]_vars

\* A claim is open on one row while another row, of a less urgent priority
\* or created later, is queued and eligible; and a task that was re-queued
\* with a backoff waits for its available_at.
C7_Witness ==
  \E w \in Workers :
    /\ pc[w] = "claim_tx"
    /\ \E j \in DOMAIN tasks :
         /\ j # row[w].id
         /\ tasks[j].status = "queued"
         /\ tasks[j].available_at <= now
         /\ OrderedBefore(tasks[row[w].id], tasks[j])
    /\ row[w].attempts = 2

\* A tool.call whose tool raises on every attempt, with the default
\* max_attempts.
AlwaysRaises(t) ==
  /\ tasks[t].type = "tool.call"
  /\ tasks[t].tool \notin RegisteredTools
  /\ tasks[t].max_attempts = DefaultMaxAttempts

\* C8: such a task is claimed three times and no more; each attempt that
\* failed appends one task.failed event, and the events of attempts 1, 2, 3
\* carry the backoffs 1, 2, 4; after the first and the second failure it is
\* queued again, after the third it is failed with attempts = 3; it never
\* succeeds.
C8_RetryThenFail ==
  \A t \in DOMAIN tasks : AlwaysRaises(t) =>
    /\ ClaimedCount(t) <= tasks[t].attempts
    /\ tasks[t].attempts <= 3
    /\ \A i \in 1..Len(Failures(t)) :
         /\ Failures(t)[i].attempts \in 1..tasks[t].attempts
         /\ Failures(t)[i].retry_backoff_s = <<1, 2, 4>>[Failures(t)[i].attempts]
         /\ \A j \in 1..Len(Failures(t)) :
              Failures(t)[j].attempts = Failures(t)[i].attempts => j = i
    /\ tasks[t].status # "succeeded"
    /\ tasks[t].status = "failed" => tasks[t].attempts = 3
    /\ Idle(t) =>
         /\ ClaimedCount(t) = tasks[t].attempts
         /\ Len(Failures(t)) = tasks[t].attempts
         /\ tasks[t].attempts < 3 => tasks[t].status = "queued"
         /\ tasks[t].attempts = 3 => tasks[t].status = "failed"

\* The third failure is recorded and the task is failed.
C8_Witness ==
  \E t \in DOMAIN tasks :
    /\ AlwaysRaises(t)
    /\ Idle(t)
    /\ tasks[t].status = "failed"
    /\ tasks[t].attempts = 3
    /\ ClaimedCount(t) = 3
    /\ Len(Failures(t)) = 3
    /\ FailureBackoff(t, 1) = 1
    /\ FailureBackoff(t, 2) = 2
    /\ FailureBackoff(t, 3) = 4

\* A tool.call whose handler succeeds.
AlwaysSucceeds(t) ==
  tasks[t].type = "tool.call" /\ tasks[t].tool \in RegisteredTools

\* C9: one queued task whose handler succeeds, two workers polling: one
\* worker claims it and only one, every other worker stays between its poll
\* and its sleep (its claims return none), and the task ends succeeded with
\* attempts = 1.
C9_ClaimedOnce ==
  \A t \in DOMAIN tasks : AlwaysSucceeds(t) =>
    /\ tasks[t].attempts <= 1
    /\ ClaimedCount(t) <= 1
    /\ tasks[t].status # "failed"
    /\ \A w1 \in Workers : \A w2 \in Workers \ {w1} :
         pc[w1] \notin {"poll", "sleep"} => pc[w2] \in {"poll", "sleep"}
    /\ (Idle(t) /\ tasks[t].attempts = 1) =>
         /\ tasks[t].status = "succeeded"
         /\ Len(EventsOfType(t, "tool_result")) = 1

\* The worker that claimed the task has completed it as succeeded after one
\* attempt, and the other worker sleeps after a claim that returned none.
C9_Witness ==
  \E t \in DOMAIN tasks :
    /\ AlwaysSucceeds(t)
    /\ tasks[t].status = "succeeded"
    /\ tasks[t].attempts = 1
    /\ ClaimedCount(t) = 1
    /\ \E w1 \in Workers : \E w2 \in Workers \ {w1} :
         /\ pc[w1] = "ev_result"
         /\ row[w1].id = t
         /\ pc[w2] = "sleep"

\* C10: complete_task_success makes the row succeeded, stores the result
\* and sets last_error and the three lock fields to NULL; every succeeded
\* task has the three lock fields NULL.
C10_SuccessClearsLease ==
  /\ [](\A t \in DOMAIN tasks : tasks[t].status = "succeeded" =>
          /\ tasks[t].locked_by = NULL
          /\ tasks[t].locked_at = NullTime
          /\ tasks[t].lock_expires_at = NullTime)
  /\ [][\A w \in Workers :
          (pc[w] = "success" /\ pc'[w] = "ev_result") =>
            /\ tasks'[row[w].id].status = "succeeded"
            /\ tasks'[row[w].id].result = "result"
            /\ tasks'[row[w].id].last_error = NULL
            /\ tasks'[row[w].id].locked_by = NULL
            /\ tasks'[row[w].id].locked_at = NullTime
            /\ tasks'[row[w].id].lock_expires_at = NullTime]_vars

\* A task that had failed once (last_error set) is succeeded.
C10_Witness ==
  \E t \in DOMAIN tasks :
    tasks[t].status = "succeeded" /\ tasks[t].attempts = 2

\* A recall request is being answered in this step.
RecallStep ==
  /\ req.pc = "handler" /\ req.path = "/ask"
  /\ classify_mode(req.prompt) = "recall"
  /\ req'.pc = "done"

\* The store holds a remembered phrase the recall may see.
HoldsPhrase(rs, include_tools) ==
  \E i \in DOMAIN rs :
    /\ rs[i].content.tag \in {"PHRASE:", "phrase:"}
    /\ (include_tools \/ rs[i].tool = NULL)
    /\ Strip(rs[i].content.body) # ""

\* C11: a remember request with phrase P ends with 200 and response P, and
\* a recall request that follows it (no other remember in between) ends
\* with 200 and response P; neither calls embed or chat.
C11_RememberThenRecall ==
  /\ (req.pc = "done" /\ req.mode = "remember") =>
       /\ req.status = 200
       /\ req.response = extract_phrase(req.prompt)
       /\ req.embed_calls = 0 /\ req.chat_calls = 0
  /\ (req.pc = "done" /\ req.mode = "recall" /\ remembered # NULL) =>
       /\ req.status = 200
       /\ req.response = remembered
       /\ req.embed_calls = 0 /\ req.chat_calls = 0

\* C12: a recall request writes nothing: the step that answers it, with
\* the phrase or with 404, leaves the memory table as it was.
C12_RecallWritesNothing ==
  [][RecallStep => (rows' = rows /\ req'.status \in {200, 404})]_vars

\* A recall has returned a phrase, stripped of its padding, from a row
\* whose prefix is in lower case.
C12_Witness ==
  /\ req.pc = "done" /\ req.mode = "recall"
  /\ req.status = 200 /\ req.response = "red_fox"
  /\ rows # <<>>

\* C13: a recall against a store that holds no remembered phrase is
\* answered with 404.
C13_RecallMiss ==
  [][(RecallStep /\ ~HoldsPhrase(rows, req.include_tools)) =>
       (req'.status = 404 /\ req'.response = NULL)]_vars

\* A recall without INCLUDE_TOOLS was answered 404 by a store whose only
\* phrase rows carry a tool or are blank.
C13_Witness ==
  /\ req.pc = "done" /\ req.mode = "recall" /\ req.status = 404
  /\ ~req.include_tools
  /\ Len(rows) = MaxPhrases
  /\ \A i \in DOMAIN rows : rows[i].content.tag = "PHRASE:"
  /\ \E i \in DOMAIN rows : rows[i].tool # NULL /\ Strip(rows[i].content.body) # ""

\* The types of the events stored under a run id, in insertion order.
RunEventTypes(rs, run_id) ==
  LET evs == SelectSeq(rs, LAMBDA r : r.content.tag = "EVENT:" /\ r.content.run_id = run_id)
  IN  [i \in 1..Len(evs) |-> evs[i].content.type]

\* A chat-mode request has ended after its first model call returned.
ChatAnswered == req.pc = "done" /\ req.mode = "chat" /\ req.model_out # NULL

C15_ChatEvents ==
  ChatAnswered =>
    /\ RunEventTypes(rows, req.run_id) =
         IF parse_tool_call(req.model_out).ok
           THEN <<"tool_call", "tool_result", "response">>
           ELSE <<"response">>
    /\ req.status = 200

\* C16: a tool run that fails inside a chat-mode /ask (here: a tool that
\* is not registered) does not fail the request: a tool_result event is
\* stored, chat is called a second time, the response event is stored and
\* the answer is 200.
C16_ToolFailureRecovered ==
  (ChatAnswered /\ req.model_out = NopeCall) =>
    /\ req.status = 200
    /\ req.chat_calls = 2
    /\ \E i \in DOMAIN rows :
         /\ rows[i].content.tag = "EVENT:"
         /\ rows[i].content.type = "tool_result"
         /\ rows[i].content.run_id = req.run_id

\* C19: every response, error responses included, carries X-Run-Id: the
\* X-Run-Id of the request when it presets one, a fresh id otherwise, and
\* the run_id of the /ask body.
C19_RunIdHeader ==
  req.pc = "done" =>
    /\ req.resp_header # NULL
    /\ req.header # NULL => req.resp_header = req.header
    /\ req.header = NULL => req.resp_header = Uuid(req.n)
    /\ (req.path = "/ask" /\ req.status = 200) => req.body_run_id = req.resp_header

\* A /trace request is being answered in this step.
TraceStep == req.pc = "handler" /\ req.path = "/trace" /\ req'.pc = "done"

C18_TraceInInsertionOrder ==
  (req.pc = "done" /\ req.path = "/trace") =>
    \A k \in DOMAIN req.sel : \A l \in DOMAIN req.sel :
      k < l => /\ rows[req.sel[k]].created_at <= rows[req.sel[l]].created_at
               /\ req.sel[k] < req.sel[l]

\* What the claim calls a match of a value and a declared scalar type.
MatchesDeclared(expected, v) ==
  \/ expected = "string" /\ v = "str"
  \/ expected = "integer" /\ v = "int"
  \/ expected = "number" /\ v \in {"int", "float"}
  \/ expected = "boolean" /\ v = "bool"
  \/ expected \notin {"string", "integer", "number", "boolean"}

\* The keys the args of the call hold.
Passed == {k \in ArgKeys : call.args[k] # Absent}

\* The keys the schema of the call declares.
Declared == {k \in ArgKeys : call.schema.properties[k] # Absent}

SimOf(c, i) == CosineSim(rows[i].embedding, c.q)

\* The rows call c is to choose from: an embedding, similar enough, and no
\* tool unless include_tools.
Retrievable(c) ==
  {i \in DOMAIN rows : /\ rows[i].embedding # NullVector
                       /\ SimOf(c, i) >= c.min_similarity
                       /\ (c.include_tools \/ rows[i].tool = NULL)}

Returned(c) == {c.result[k] : k \in DOMAIN c.result}

\* A search_memories call returns in this step.
SearchStep == call' # call /\ call'.pc = "returned" /\ call'.fn = "search_memories"

\* C21: search_memories returns rows with an embedding whose similarity to
\* the query is at least min_similarity, each once, sorted by similarity
\* descending, and as many as top_k allows: all of them when they are at
\* most top_k, else top_k of them with no similarity left out above one
\* that is returned; without include_tools no returned row has a tool.
C21_SearchResult ==
  [][SearchStep =>
       /\ Returned(call') \subseteq Retrievable(call')
       /\ \A k \in DOMAIN call'.result : \A l \in DOMAIN call'.result :
            k # l => call'.result[k] # call'.result[l]
       /\ \A k \in DOMAIN call'.result : \A l \in DOMAIN call'.result :
            k < l => SimOf(call', call'.result[k]) >= SimOf(call', call'.result[l])
       /\ Len(call'.result) = Min(call'.top_k, Cardinality(Retrievable(call')))
       /\ \A i \in Retrievable(call') \ Returned(call') : \A j \in Returned(call') :
            SimOf(call', i) <= SimOf(call', j)
       /\ ~call'.include_tools => \A i \in Returned(call') : rows[i].tool = NULL]_vars

\* A search without include_tools and with top_k = 1 returned the more
\* similar of two rows, out of a store whose most similar row has a tool.
C21_Witness ==
  /\ call.pc = "returned" /\ call.fn = "search_memories"
  /\ ~call.include_tools
  /\ call.top_k = 1 /\ Len(call.result) = 1
  /\ Cardinality(Retrievable(call)) = 2
  /\ \E i \in Retrievable(call) : SimOf(call, i) < SimOf(call, call.result[1])
  /\ \E i \in DOMAIN rows :
       /\ rows[i].tool # NULL /\ rows[i].embedding # NullVector
       /\ SimOf(call, i) > SimOf(call, call.result[1])

\* C22: every memory row with an embedding has exactly EXPECTED_EMBED_DIM
\* components: insert_memory with an embedding of another length fails and
\* writes no row.
C22_EmbeddingDim ==
  \A i \in DOMAIN rows :
    rows[i].embedding # NullVector => Len(rows[i].embedding) = EXPECTED_EMBED_DIM

\* The backoffs of successive failures of one task, by attempt.
BackoffSchedule == <<1, 2, 4, 8, 16, 30, 30, 30>>

\* C24: the retry_backoff_s the worker passes to complete_task_failure is
\* min(30, 2^max(0, attempts-1)) for the attempts the claim returned: 1, 2,
\* 4, 8, 16, 30, 30 for the successive failures of a task, never below 1
\* nor above 30.  The value passed is the one the re-queued row's
\* available_at is pushed by and the one the task.failed event records.
C24_BackoffSchedule ==
  /\ [][\A w \in Workers :
          (pc[w] = "failure" /\ pc'[w] = "ev_failed") =>
            /\ row[w].attempts \in 1..Len(BackoffSchedule)
            /\ tasks'[row[w].id].status = "queued" =>
                 tasks'[row[w].id].available_at =
                   now + BackoffSchedule[row[w].attempts]]_vars
  /\ [](\A t \in DOMAIN tasks : \A i \in 1..Len(Failures(t)) :
          /\ Failures(t)[i].retry_backoff_s = BackoffSchedule[Failures(t)[i].attempts]
          /\ Failures(t)[i].retry_backoff_s >= 1
          /\ Failures(t)[i].retry_backoff_s <= 30)

\* A task has failed seven times, with the backoffs 1, 2, 4, 8, 16, 30, 30.
C24_Witness ==
  \E t \in DOMAIN tasks :
    /\ Len(Failures(t)) = 7
    /\ \A a \in 1..7 : FailureBackoff(t, a) = <<1, 2, 4, 8, 16, 30, 30>>[a]
    /\ tasks[t].status = "failed"

\* C25: each of the four task types has its handler, so a claimed
\* repo.change or doc.build task (its payload is valid) never fails as an
\* unknown task type: no attempt of it fails and, once the worker is done
\* with it, it is succeeded.
C25_ClosedDispatch ==
  \A t \in DOMAIN tasks :
    tasks[t].type \in {"repo.change", "doc.build"} =>
      /\ tasks[t].last_error = NULL
      /\ tasks[t].status # "failed"
      /\ Failures(t) = <<>>
      /\ (Idle(t) /\ tasks[t].attempts >= 1) => tasks[t].status = "succeeded"

\* The types of the events the worker appended for attempt a of task t, in
\* insertion order.
AttemptTypes(t, a) ==
  LET evs == SelectSeq(memory[t], LAMBDA e : e.attempts = a)
  IN  [i \in 1..Len(evs) |-> evs[i].type]

\* The closing events of an execution of a task of a type.
ClosingTypes(task_type) ==
  {task_type \o ".result", "task.failed", "task.permanently_failed"}

\* C26: the events of one execution of a claimed task come in a fixed
\* order: task.claimed, then the begin event of type <task_type>, then one
\* closing event, <task_type>.result or a failure event; no second
\* closing event, and no closing event before the begin event.
C26_EventOrder ==
  \A t \in DOMAIN tasks : \A a \in 1..tasks[t].attempts :
    LET s == AttemptTypes(t, a)
    IN  /\ Len(s) <= 3
        /\ Len(s) >= 1 => s[1] = "task.claimed"
        /\ Len(s) >= 2 => s[2] = tasks[t].type
        /\ Len(s) >= 3 => s[3] \in ClosingTypes(tasks[t].type)
        /\ (Len(s) = 3 /\ s[3] = tasks[t].type \o ".result")
             => tasks[t].status = "succeeded"

\* C27: the failure event of an attempt on which the worker observed
\* attempts >= max_attempts has type task.permanently_failed, and that of
\* an attempt with attempts < max_attempts has type task.failed.
C27_PermanentFailureEvent ==
  \A t \in DOMAIN tasks : \A i \in DOMAIN memory[t] :
    LET e == memory[t][i]
    IN  e.type \in {"task.failed", "task.permanently_failed"} =>
          e.type = IF e.attempts >= e.max_attempts
                     THEN "task.permanently_failed"
                     ELSE "task.failed"

\* C28: a stored row that starts with EVENT: and is not JSON does not make
\* get_trace fail: the request is answered 200 and every valid event of
\* the requested run is in the answer.
C28_TraceSkipsMalformed ==
  [][TraceStep =>
       /\ req'.status = 200
       /\ \A i \in DOMAIN rows :
            ( /\ rows[i].content.tag = "EVENT:"
              /\ rows[i].content.body # MalformedBody
              /\ rows[i].content.run_id = req.arg )
            => \E k \in DOMAIN req'.sel : req'.sel[k] = i]_vars

\* The fields of an envelope.
EnvelopeFields == {"id", "run_id", "type", "source", "ts", "data"}

\* C23: the JSON that follows EVENT: in the content of an envelope parses
\* back to the envelope: it has all six fields, id and run_id among them,
\* and each field of the event has the value it had.
C23_RoundTrip ==
  call.pc = "serialized" =>
    /\ EnvelopeFields \subseteq DOMAIN call.parsed
    /\ \A k \in DOMAIN call.parsed : call.parsed[k] = call.event[k]

\* The tool_result of a row that mirrors the row's envelope.
EnvelopeMirror == "envelope"

\* C29: every memory row the worker writes is written through the one
\* write_event function, the one the orchestrator writes through, and its
\* tool_result column mirrors its envelope.
C29_SingleWritePath ==
  \A t \in DOMAIN memory : \A i \in DOMAIN memory[t] :
    /\ memory[t][i].via = CanonicalWriter
    /\ memory[t][i].tool_result = EnvelopeMirror

\* C30: a remember-mode /ask ends with 200 and the phrase, the text after
\* the colon stripped, as its response; it has stored one event under its
\* run_id, of type remember_phrase, and has called neither embed nor chat.
C30_RememberPersistsOne ==
  (req.pc = "done" /\ req.mode = "remember") =>
    /\ RunEventTypes(rows, req.run_id) = <<"remember_phrase">>
    /\ req.status = 200
    /\ req.response = "blue_giraffe_42"
    /\ req.embed_calls = 0 /\ req.chat_calls = 0

\* C31: the lease fields agree with the status.  The row a claim_task call
\* returns is running, locked_by the claiming worker, with locked_at the
\* time of the claim and lock_expires_at = locked_at + lock_s; every
\* running task has a locked_by and lock_expires_at = locked_at + lock_s;
\* every queued, succeeded or failed task has the three lock fields NULL.
C31_LeaseConsistent ==
  /\ [](\A t \in DOMAIN tasks :
          IF tasks[t].status = "running"
            THEN /\ tasks[t].locked_by \in Workers
                 /\ tasks[t].locked_at # NullTime
                 /\ tasks[t].lock_expires_at = tasks[t].locked_at + LockS
            ELSE /\ tasks[t].status \in {"queued", "succeeded", "failed"}
                 /\ tasks[t].locked_by = NULL
                 /\ tasks[t].locked_at = NullTime
                 /\ tasks[t].lock_expires_at = NullTime)
  /\ [][\A w \in Workers :
          (pc[w] = "poll" /\ pc'[w] = "claim_tx") =>
            /\ row'[w].status = "running"
            /\ row'[w].locked_by = w
            /\ row'[w].locked_at = now
            /\ row'[w].lock_expires_at = now + LockS]_vars
  /\ [][\A w \in Workers :
          (pc[w] = "claim_tx" /\ pc'[w] = "ev_claimed") =>
            tasks'[row[w].id] = row[w]]_vars

\* A task is running under the lease of its second claim, taken after the
\* clock had moved: it was queued without a lease in between.
C31_Witness ==
  \E t \in DOMAIN tasks :
    /\ tasks[t].status = "running"
    /\ tasks[t].attempts = 2
    /\ tasks[t].locked_by \in Workers
    /\ tasks[t].locked_at > 0
    /\ tasks[t].lock_expires_at = tasks[t].locked_at + LockS

\* A step of the chat-mode request in which the call made at position p
\* (handler: ollama_embed, search: search_memories, chat: the first
\* ollama_chat) fails: the request ends there.
ChatModeFails(p) ==
  /\ req.pc = p /\ req.path = "/ask"
  /\ classify_mode(req.prompt) = "chat"
  /\ req'.pc = "done"

\* The response events of a run in the store.
ResponseEvents(rs, run_id) ==
  {i \in DOMAIN rs : /\ rs[i].content.tag = "EVENT:"
                     /\ rs[i].content.type = "response"
                     /\ rs[i].content.run_id = run_id}

Leases(w) ==
  {t \in DOMAIN tasks : tasks[t].status = "running" /\ tasks[t].locked_by = w}

\* C33: when no worker process is killed, no task stays running forever:
\* a worker whose run_once has ended, with or without an exception, has
\* completed the task it had claimed, so a worker that has left its loop
\* holds no lease.
C33_NoStrandedLease ==
  (\A v \in Workers : pc[v] # "dead") =>
    \A w \in Workers : pc[w] = "crashed" => Leases(w) = {}

\* The claim_task calls that return task t in this step: the commit of a
\* claim of t.
ClaimsReturning(t) ==
  {w \in Workers : pc[w] = "claim_tx" /\ pc'[w] = "ev_claimed" /\ row[w].id = t}

\* C34: attempts counts the claim_task calls that returned the task: a
\* new task has attempts = 0, a step changes attempts only when a claim of
\* the task is returned, and then by exactly one, complete_task_success
\* and complete_task_failure change neither attempts nor max_attempts,
\* and the task.claimed events of a task never outnumber its attempts.
C34_AttemptsCountClaims ==
  /\ [][\A t \in DOMAIN tasks :
          /\ tasks'[t].attempts = tasks[t].attempts + Cardinality(ClaimsReturning(t))
          /\ tasks'[t].max_attempts = tasks[t].max_attempts]_vars
  /\ [][\A w \in Workers :
          (pc[w] \in {"success", "failure"} /\ pc'[w] \in {"ev_result", "ev_failed"}) =>
            /\ tasks'[row[w].id].attempts = row[w].attempts
            /\ tasks'[row[w].id].max_attempts = row[w].max_attempts]_vars
  /\ [](\A t \in DOMAIN tasks :
          /\ tasks[t].attempts >= ClaimedCount(t)
          /\ (tasks[t].attempts = 0 => tasks[t].status = "queued"))

\* A task was claimed twice and completed as a failure twice: it is queued
\* again with attempts = 2 and both failures on record.
C34_Witness ==
  \E t \in DOMAIN tasks :
    /\ tasks[t].status = "queued"
    /\ tasks[t].attempts = 2
    /\ tasks[t].max_attempts = DefaultMaxAttempts
    /\ Len(Failures(t)) = 2

\* C35: a live worker holds at most one lease: at most one running task is
\* locked by a worker whose process runs, that task is the one run_once
\* has in hand, and the worker calls claim_task (it polls) only when no
\* running task is locked by it.
C35_OneLease ==
  \A w \in Workers :
    pc[w] \notin {"dead", "crashed"} =>
      /\ Cardinality(Leases(w)) <= 1
      /\ \A t \in Leases(w) : row[w].id = t
      /\ pc[w] \in {"poll", "sleep", "claim_tx"} => Leases(w) = {}

\* A worker completed one task and holds the lease of another it claimed
\* next, while the other worker holds none.
C35_Witness ==
  \E w \in Workers : \E t \in DOMAIN tasks : \E u \in DOMAIN tasks :
    /\ pc[w] = "handler"
    /\ Leases(w) = {t}
    /\ u # t
    /\ tasks[u].status = "succeeded"
    /\ \A v \in Workers \ {w} : Leases(v) = {} /\ pc[v] = "sleep"

====
